---------------------------- MODULE Spec2Model ----------------------------
(* A model of the Kubernetes MCP server of src/: the configuration         *)
(* resolution done when kubernetes_mcp_core.py is imported, the start-up    *)
(* sequence of the two entry points (httpserver.py, stdio.py), the command  *)
(* executor, the secret-masking function and the tool handlers.             *)
EXTENDS Integers, Sequences, FiniteSets, TLC

VARIABLES
    env,         \* os.environ, restricted to the variables the code reads
    installed,   \* the CLIs found on PATH of the host: a subset of {"kubectl", "helm"}
    pc,          \* position of the process: import, main, checked, running, exited, crashed
    k8s_config,  \* the module-level KubernetesConfig instance
    has_helm,    \* the entry point's local has_helm
    registered,  \* names of the tools registered on the FastMCP instance
    fs,          \* the temporary files on disk: name -> content
    calls,       \* the tool calls: slot -> call record
    m            \* the values of a run of mask_secrets_data

vars == <<env, installed, pc, k8s_config, has_helm, registered, fs, calls, m>>

-----------------------------------------------------------------------------
(* Bounds of the model.                                                    *)

\* Number of distinct temporary file names the file system offers.
MaxTmp == 3

\* Largest number of nodes (containers and scalars) of a structured value.
MaxNodes == 5

-----------------------------------------------------------------------------
(* Python values.                                                          *)

\* Python's None: an unset environment variable, an unset optional field.
None == "<None>"

\* bool(s) of an optional string.
Truthy(s) == s # None /\ s # ""

\* str.lower() on the strings of the model.
Lower(s) ==
    CASE s = "Secrets" -> "secrets"
      [] s = "Secret"  -> "secret"
      [] s = "Nodes"   -> "nodes"
      [] s = "TRUE"    -> "true"
      [] s = "False"   -> "false"
      [] s = "FALSE"   -> "false"
      [] OTHER         -> s

\* os.getenv(name): None when the variable is unset.
getenv(name) == env[name]

\* os.getenv(name, default).
getenv_default(name, default) == IF env[name] = None THEN default ELSE env[name]

\* Names given without regard to the files that exist.
AnyNames == {"/tmp/tmp" \o ToString(i) \o ".yaml" : i \in 1..MaxTmp}

\* The names tempfile.NamedTemporaryFile can give: it opens with O_EXCL, so
\* the name it returns is one no existing file has.
TmpNames == {"/tmp/tmp" \o ToString(i) \o ".yaml" : i \in 1..MaxTmp}
FreeNames == TmpNames \ DOMAIN fs

\* fs with file name created (or truncated) holding content.
WriteFile(files, name, content) ==
    [n \in DOMAIN files \cup {name} |-> IF n = name THEN content ELSE files[n]]

\* fs after os.unlink(name).
Unlink(files, name) == [n \in DOMAIN files \ {name} |-> files[n]]

-----------------------------------------------------------------------------
(* Configuration resolution: KubernetesConfig.__post_init__.               *)

EnvVars == {"KUBECONFIG_YAML", "KUBECONFIG_JSON", "K8S_SERVER", "K8S_TOKEN",
            "K8S_SKIP_TLS_VERIFY", "KUBECONFIG_PATH", "KUBECONFIG",
            "K8S_CONTEXT", "K8S_NAMESPACE", "MASK_SECRETS"}

\* Texts that json.loads accepts, and the document each parses to.
JsonTexts == {"{json A}", "{json B}"}
MalformedJson == "{json"
MalformedYaml == "yaml: ["

json_valid(text) == text \in JsonTexts
json_loads(text) == IF text = "{json A}" THEN "doc A" ELSE "doc B"

\* os.path.expanduser("~/.kube/config")
HomeKubeconfig == "~/.kube/config"

\* Content of a file: text written verbatim, or the yaml.dump of a document.
Verbatim(text) ==
    [kind |-> "text", text |-> text, server |-> None, token |-> None, skip_tls |-> FALSE]

YamlDumpOfJson(doc) ==
    [kind |-> "yaml.dump", text |-> doc, server |-> None, token |-> None, skip_tls |-> FALSE]

\* The single-cluster, single-user, single-context document of _setup_from_minimal.
MinimalConfig(server, token, skip_tls) ==
    [kind |-> "yaml.dump", text |-> "env-context", server |-> server, token |-> token,
     skip_tls |-> skip_tls]

\* The module-level name k8s_config before (or without) its assignment.
Unbound == [kubeconfig_path |-> None, context |-> None, namespace |-> None]

\* The branch __post_init__ takes: the first of the if/elif chain whose
\* condition is true.
ConfigBranchSwapped ==
    IF Truthy(getenv("KUBECONFIG_JSON")) THEN "json"
    ELSE IF Truthy(getenv("KUBECONFIG_YAML")) THEN "yaml"
    ELSE IF Truthy(getenv("K8S_SERVER")) /\ Truthy(getenv("K8S_TOKEN")) THEN "minimal"
    ELSE IF Truthy(getenv("KUBECONFIG")) THEN "kubeconfig"
    ELSE IF Truthy(getenv("KUBECONFIG_PATH")) THEN "path"
    ELSE "home"

ConfigBranch ==
    IF Truthy(getenv("KUBECONFIG_YAML")) THEN "yaml"
    ELSE IF Truthy(getenv("KUBECONFIG_JSON")) THEN "json"
    ELSE IF Truthy(getenv("K8S_SERVER")) /\ Truthy(getenv("K8S_TOKEN")) THEN "minimal"
    ELSE IF Truthy(getenv("KUBECONFIG_PATH")) THEN "path"
    ELSE IF Truthy(getenv("KUBECONFIG")) THEN "kubeconfig"
    ELSE "home"

\* json.loads(json_content) returns: it raises on text that is not JSON.
\* (_setup_from_yaml has no such step: it writes the text without parsing it.)
JsonAcceptedAlways == TRUE

JsonAccepted == json_valid(getenv("KUBECONFIG_JSON"))

\* What the taken inline branch writes to its temporary file.
InlineContent(branch) ==
    CASE branch = "yaml" -> Verbatim(getenv("KUBECONFIG_YAML"))
      [] branch = "json" -> YamlDumpOfJson(json_loads(getenv("KUBECONFIG_JSON")))
      [] branch = "minimal" ->
            MinimalConfig(getenv("K8S_SERVER"), getenv("K8S_TOKEN"),
                          Lower(getenv_default("K8S_SKIP_TLS_VERIFY", "false")) = "true")

\* The tail of __post_init__: context and namespace are read whatever the branch.
WithContextAndNamespace(path) ==
    [kubeconfig_path |-> path,
     context |-> getenv("K8S_CONTEXT"),
     namespace |-> getenv_default("K8S_NAMESPACE", "default")]

\* k8s_config = KubernetesConfig() at import, an inline branch: the content is
\* written to a new temporary file, whose name becomes the path and is exported
\* as KUBECONFIG.
ImportInline ==
    /\ pc = "import"
    /\ ConfigBranch \in {"yaml", "json", "minimal"}
    /\ ConfigBranch = "json" => JsonAccepted
    /\ \E name \in FreeNames :
          /\ fs' = WriteFile(fs, name, InlineContent(ConfigBranch))
          /\ k8s_config' = WithContextAndNamespace(name)
          /\ env' = [env EXCEPT !["KUBECONFIG"] = name]
    /\ pc' = "main"
    /\ UNCHANGED <<installed, has_helm, registered, calls, m>>

\* k8s_config = KubernetesConfig() at import, a path branch.
ImportPath ==
    /\ pc = "import"
    /\ ConfigBranch \in {"path", "kubeconfig", "home"}
    /\ k8s_config' = WithContextAndNamespace(
          CASE ConfigBranch = "path" -> getenv("KUBECONFIG_PATH")
            [] ConfigBranch = "kubeconfig" -> getenv("KUBECONFIG")
            [] ConfigBranch = "home" -> HomeKubeconfig)
    /\ pc' = "main"
    /\ UNCHANGED <<env, installed, has_helm, registered, fs, calls, m>>

\* The import fails: json.loads raises, the exception leaves KubernetesConfig()
\* and the module, and with it the entry point, is never loaded.
ImportRaises ==
    /\ pc = "import"
    /\ ConfigBranch = "json"
    /\ ~JsonAccepted
    /\ pc' = "crashed"
    /\ UNCHANGED <<env, installed, k8s_config, has_helm, registered, fs, calls, m>>

-----------------------------------------------------------------------------
(* Tool calls.                                                             *)

\* Number of tool calls the transport serves at a time.
MaxCalls == 2

Slots == 1..MaxCalls

\* The payload of a response, and of a process's stdout: text in some format
\* that renders a structured value.
NoBody == [fmt |-> "none", val |-> [t |-> "scalar", v |-> ""]]

NoResp == [status |-> "none", cause |-> "", body |-> NoBody]

\* A slot without a call. A call holds its handler h and arguments req, where
\* it is (pc: exec while a process runs, done when the handler has returned),
\* the stage and command line of the process, the temporary file it created,
\* the number of processes it has started, whether a repo step failed, how
\* the last process ended and its stdout, and the payload returned.
Idle == [h |-> "idle", pc |-> "idle", req |-> <<>>, stage |-> "", cmd |-> <<>>,
         tmp |-> None, nexec |-> 0, repo_failed |-> FALSE, outcome |-> "none",
         out |-> NoBody, resp |-> NoResp]

IdleCalls == [i \in Slots |-> Idle]

-----------------------------------------------------------------------------
(* Start-up: check_dependencies and the __main__ block of the entry points. *)

KubectlTools == {"ping", "kubectl_get", "kubectl_describe", "kubectl_apply",
                 "kubectl_delete", "kubectl_logs", "kubectl_context", "kubectl_scale",
                 "kubectl_patch", "kubectl_rollout", "kubectl_exec", "health_check"}
HelmTools == {"helm_install", "helm_upgrade", "helm_uninstall", "helm_list"}

\* check_dependencies(): False when kubectl is missing; otherwise whether helm
\* is there.
check_dependencies ==
    IF "kubectl" \notin installed THEN FALSE
    ELSE IF "helm" \in installed THEN TRUE
    ELSE FALSE

\* The tools setup_all_tools registers.
setup_all_tools(include_helm) ==
    KubectlTools \cup (IF include_helm THEN HelmTools ELSE {})

\* has_helm = check_dependencies()
CheckDependencies ==
    /\ pc = "main"
    /\ has_helm' = check_dependencies
    /\ pc' = "checked"
    /\ UNCHANGED <<env, installed, k8s_config, registered, fs, calls, m>>

\* if not has_helm: exit(1)
MainExits == ~has_helm

MainExit ==
    /\ pc = "checked"
    /\ MainExits
    /\ pc' = "exited"
    /\ UNCHANGED <<env, installed, k8s_config, has_helm, registered, fs, calls, m>>

\* setup_all_tools(mcp, include_helm=has_helm); mcp.run(...)
MainRun ==
    /\ pc = "checked"
    /\ ~MainExits
    /\ registered' = setup_all_tools(has_helm)
    /\ pc' = "running"
    /\ UNCHANGED <<env, installed, k8s_config, has_helm, fs, calls, m>>

-----------------------------------------------------------------------------
(* Structured values (parsed JSON) and mask_secrets_data.                  *)

\* A value is tagged with its Python type: a dict (v: a function on its keys),
\* a list (v: a sequence) or anything else (v: the scalar).
Sc(s) == [t |-> "scalar", v |-> s]
Dict(f) == [t |-> "dict", v |-> f]
List(q) == [t |-> "list", v |-> q]

Redacted == Sc("***")

\* A test of the type alone, which masks every nested dict.
IsDataFieldAnyKey(key, value) == value.t = "dict"

\* key == "data" and isinstance(value, dict)
IsDataField(key, value) == key = "data" /\ value.t = "dict"

\* A marker that depends on what it replaces.
MaskedValueByType(old) == IF old.t = "scalar" THEN Redacted ELSE Sc("******")

\* The value put in place of old in {k: "***" for k in value.keys()}.
MaskedValue(old) == Redacted

\* The masked copy of a "data" dict: same keys, each value replaced.
MaskedDataDict(value) == Dict([k \in DOMAIN value.v |-> MaskedValue(value.v[k])])

RECURSIVE mask_secrets_data(_)
mask_secrets_data(data) ==
    IF data.t = "dict"
    THEN Dict([key \in DOMAIN data.v |->
                 IF IsDataField(key, data.v[key])
                 THEN MaskedDataDict(data.v[key])
                 ELSE mask_secrets_data(data.v[key])])
    ELSE IF data.t = "list"
    THEN List([i \in DOMAIN data.v |-> mask_secrets_data(data.v[i])])
    ELSE data

-----------------------------------------------------------------------------
(* The inputs of mask_secrets_data: every value of at most MaxNodes nodes.  *)

Scalars == {"c2VjcmV0", "***"}
Keys == {"data", "stringData"}

\* f extended with key -> value.
WithEntry(f, key, value) ==
    [k \in DOMAIN f \cup {key} |-> IF k = key THEN value ELSE f[k]]

RECURSIVE ValuesOfSize(_), SeqsOfSize(_), MapsOfSize(_, _)

\* The values of exactly n nodes.
ValuesOfSize(n) ==
    IF n < 1 THEN {}
    ELSE (IF n = 1 THEN {Sc(s) : s \in Scalars} ELSE {})
         \cup {Dict(f) : f \in MapsOfSize(n - 1, Keys)}
         \cup {List(q) : q \in SeqsOfSize(n - 1)}

\* The sequences of values whose nodes add up to n.
SeqsOfSize(n) ==
    IF n = 0 THEN {<<>>}
    ELSE UNION {{<<v>> \o q : v \in ValuesOfSize(a), q \in SeqsOfSize(n - a)} : a \in 1..n}

\* The mappings from some of the keys K to values whose nodes add up to n.
MapsOfSize(n, K) ==
    IF K = {} THEN (IF n = 0 THEN {<<>>} ELSE {})
    ELSE LET key == CHOOSE k \in K : TRUE
             rest == K \ {key}
         IN  MapsOfSize(n, rest)
             \cup UNION {{WithEntry(f, key, v) :
                            v \in ValuesOfSize(a), f \in MapsOfSize(n - a, rest)} : a \in 1..n}

Values == UNION {ValuesOfSize(n) : n \in 1..MaxNodes}

\* A run of the function: m.n applications of mask_secrets_data to m.input so far.
InitMask ==
    /\ m \in {[input |-> x, once |-> x, twice |-> x, n |-> 0] : x \in Values}
    /\ env = [v \in EnvVars |-> None]
    /\ installed = {}
    /\ pc = "mask"
    /\ k8s_config = Unbound
    /\ has_helm = FALSE
    /\ registered = {}
    /\ fs = <<>>
    /\ calls = IdleCalls

\* once = mask_secrets_data(input)
MaskOnce ==
    /\ m.n = 0
    /\ m' = [m EXCEPT !.once = mask_secrets_data(m.input), !.n = 1]
    /\ UNCHANGED <<env, installed, pc, k8s_config, has_helm, registered, fs, calls>>

\* twice = mask_secrets_data(once)
MaskTwice ==
    /\ m.n = 1
    /\ m' = [m EXCEPT !.twice = mask_secrets_data(m.once), !.n = 2]
    /\ UNCHANGED <<env, installed, pc, k8s_config, has_helm, registered, fs, calls>>

NextMask == MaskOnce \/ MaskTwice

SpecMask == InitMask /\ [][NextMask]_vars

\* C8: mask_secrets_data is idempotent: masking a masked value changes nothing.
C8_MaskIdempotent == m.n = 2 => m.twice = m.once

\* C8 witness: a value with a "data" mapping nested in a "data" mapping has
\* been masked twice, and the first masking changed it.
C8_Witness ==
    /\ m.n = 2
    /\ m.once # m.input
    /\ m.input.t = "dict"
    /\ "data" \in DOMAIN m.input.v
    /\ m.input.v["data"].t = "dict"
    /\ "data" \in DOMAIN m.input.v["data"].v
    /\ m.input.v["data"].v["data"].t = "dict"

\* The relation the masking rule states between a value x and its image y.
RECURSIVE MaskedShape(_, _)
MaskedShape(x, y) ==
    CASE x.t = "dict" ->
            /\ y.t = "dict"
            /\ DOMAIN y.v = DOMAIN x.v
            /\ \A key \in DOMAIN x.v :
                  IF key = "data" /\ x.v[key].t = "dict"
                  THEN /\ y.v[key].t = "dict"
                       /\ DOMAIN y.v[key].v = DOMAIN x.v[key].v
                       /\ \A k \in DOMAIN y.v[key].v : y.v[key].v[k] = Sc("***")
                  ELSE MaskedShape(x.v[key], y.v[key])
      [] x.t = "list" ->
            /\ y.t = "list"
            /\ Len(y.v) = Len(x.v)
            /\ \A i \in 1..Len(x.v) : MaskedShape(x.v[i], y.v[i])
      [] OTHER -> y = x

\* C9: mask_secrets_data keeps the shape and masks only "data" mappings, at
\* every level: such a mapping keeps its keys with every value "***"; all other
\* keys, sequence lengths and orders, and scalars are unchanged.
C9_MaskShape == m.n >= 1 => MaskedShape(m.input, m.once)

\* C9 witness: a list whose element holds a "data" mapping and an untouched
\* "stringData" has been masked.
C9_Witness ==
    /\ m.n >= 1
    /\ m.input.t = "list"
    /\ Len(m.input.v) >= 1
    /\ m.input.v[1].t = "dict"
    /\ DOMAIN m.input.v[1].v = {"data", "stringData"}
    /\ m.input.v[1].v["data"].t = "dict"
    /\ m.input.v[1].v["data"].v # <<>>
    /\ m.once # m.input
    /\ m.once.v[1].v["stringData"] = m.input.v[1].v["stringData"]

-----------------------------------------------------------------------------
(* The command executor: run_kubectl_command and run_helm_command.         *)

\* seq when cond holds: an `if cond: args.extend(seq)`.
Opt(cond, seq) == IF cond THEN seq ELSE <<>>

\* The command line run_kubectl_command hands to subprocess.run.
kubectl_cmd(args) ==
    <<"kubectl">> \o args
    \o Opt(Truthy(k8s_config.kubeconfig_path), <<"--kubeconfig", k8s_config.kubeconfig_path>>)
    \o Opt(Truthy(k8s_config.context), <<"--context", k8s_config.context>>)

\* The command line run_helm_command hands to subprocess.run.
helm_cmd(args) ==
    <<"helm">> \o args
    \o Opt(Truthy(k8s_config.kubeconfig_path), <<"--kubeconfig", k8s_config.kubeconfig_path>>)

\* How subprocess.run ends: exit status 0, CalledProcessError (check=True),
\* TimeoutExpired, or an OSError such as FileNotFoundError.
Outcomes == {"ok", "nonzero", "timeout", "oserror"}

\* An executor that reports a timeout as any other failure.
RaisedByRunNoTimeout(bin, outcome) ==
    CASE outcome = "oserror" -> "oserror"
      [] OTHER               -> bin \o " command failed: <stderr>"

\* str(e) of the exception that leaves run_kubectl_command / run_helm_command.
RaisedByRun(bin, outcome) ==
    CASE outcome = "nonzero" -> bin \o " command failed: <stderr>"
      [] outcome = "timeout" -> bin \o " command timed out"
      [] outcome = "oserror" -> "oserror"

\* The structured values a cluster answers with.
SecretObject ==
    Dict([kind |-> Sc("Secret"),
          data |-> Dict([password |-> Sc("c2VjcmV0")]),
          stringData |-> Dict([note |-> Sc("plain")])])
SecretList == Dict([kind |-> Sc("List"), items |-> List(<<SecretObject>>)])
PodList == Dict([kind |-> Sc("List"), items |-> List(<<>>)])

\* Position of the first token tok in cmd, 0 when it is not there.
IndexOf(cmd, tok) ==
    IF \E k \in DOMAIN cmd : cmd[k] = tok
    THEN CHOOSE k \in DOMAIN cmd : cmd[k] = tok /\ \A j \in 1..(k - 1) : cmd[j] # tok
    ELSE 0

\* What a process that exits with status 0 may have written to stdout: kubectl
\* get renders the objects in the format its -o flag asks for (a table without
\* it); any other command writes text.
Stdouts(cmd) ==
    IF Len(cmd) >= 3 /\ cmd[1] = "kubectl" /\ cmd[2] = "get"
    THEN LET o == IndexOf(cmd, "-o")
             fmt == IF o = 0 THEN "table" ELSE cmd[o + 1]
             objects == IF cmd[3] \in {"secret", "secrets"}
                        THEN {SecretObject, SecretList}
                        ELSE {PodList}
         IN  IF fmt \in {"json", "yaml"}
             THEN {[fmt |-> fmt, val |-> x] : x \in objects}
             ELSE {[fmt |-> fmt, val |-> Sc("NAME  AGE")]}
    ELSE {[fmt |-> "text", val |-> Sc("stdout")]}

\* json.loads(result.stdout) succeeds.
json_parses(stdout) == stdout.fmt = "json"

-----------------------------------------------------------------------------
(* The tool handlers: what each builds from its arguments.                 *)

\* kubectl_get: the resource types that get no default namespace.
ClusterScopedGet == {"nodes", "node", "namespaces", "namespace",
                     "persistentvolumes", "pv", "storageclasses", "sc"}

\* kubectl_describe: the resource types that get no default namespace.
ClusterScopedDescribe == {"nodes", "node", "namespaces", "namespace",
                          "persistentvolumes", "pv"}

\* kubectl_delete: the resource types that get no default namespace.
ClusterScopedDelete == {"nodes", "node", "namespaces", "namespace"}

\* A namespace rule that lets an explicit namespace win over all_namespaces.
GetNamespaceArgsExplicitFirst(req) ==
    IF req.namespace # "" THEN <<"-n", req.namespace>>
    ELSE IF req.all_namespaces THEN <<"--all-namespaces">>
    ELSE IF Lower(req.resource_type) \notin ClusterScopedGet
    THEN <<"-n", k8s_config.namespace>>
    ELSE <<>>

\* kubectl_get: the namespace arguments.
GetNamespaceArgs(req) ==
    IF req.all_namespaces THEN <<"--all-namespaces">>
    ELSE IF req.namespace # "" THEN <<"-n", req.namespace>>
    ELSE IF req.namespace = "" /\ Lower(req.resource_type) \notin ClusterScopedGet
    THEN <<"-n", k8s_config.namespace>>
    ELSE <<>>

kubectl_get_args(req) ==
    <<"get", Lower(req.resource_type)>>
    \o Opt(req.name # "", <<req.name>>)
    \o GetNamespaceArgs(req)
    \o Opt(req.label_selector # "", <<"-l", req.label_selector>>)
    \o Opt(req.field_selector # "", <<"--field-selector", req.field_selector>>)
    \o (IF req.sort_by # "" THEN <<"--sort-by", "." \o req.sort_by>>
        ELSE IF Lower(req.resource_type) = "events" THEN <<"--sort-by", ".lastTimestamp">>
        ELSE <<>>)
    \o Opt(req.output \in {"json", "yaml", "wide", "name"}, <<"-o", req.output>>)

\* kubectl_get: masking is asked for.
MaskingOn(req) ==
    /\ Lower(req.resource_type) \in {"secrets", "secret"}
    /\ Lower(getenv_default("MASK_SECRETS", "true")) # "false"

\* kubectl_get: what it returns for the stdout of a successful command.
kubectl_get_result(req, stdout) ==
    IF MaskingOn(req) /\ req.output = "json" /\ json_parses(stdout)
    THEN [fmt |-> "json", val |-> mask_secrets_data(stdout.val)]
    ELSE stdout

\* kubectl_describe: the namespace arguments.
DescribeNamespaceArgs(req) ==
    IF req.namespace # "" THEN <<"-n", req.namespace>>
    ELSE IF Lower(req.resource_type) \notin ClusterScopedDescribe
    THEN <<"-n", k8s_config.namespace>>
    ELSE <<>>

kubectl_describe_args(req) ==
    <<"describe", Lower(req.resource_type), req.name>> \o DescribeNamespaceArgs(req)

\* kubectl_apply: the arguments after -f <file>.
ApplyFlags(req) ==
    Opt(req.namespace # "", <<"-n", req.namespace>>)
    \o Opt(req.dry_run, <<"--dry-run=client">>)
    \o Opt(req.force, <<"--force">>)

\* An apply that prefers the caller's file to the manifest text.
kubectl_apply_args_filename_first(req, temp_filename) ==
    <<"apply">>
    \o (IF req.filename # "" THEN <<"-f", req.filename>> ELSE <<"-f", temp_filename>>)
    \o ApplyFlags(req)

\* kubectl_apply: the arguments, temp_filename being the file it wrote the
\* manifest to.
kubectl_apply_args(req, temp_filename) ==
    <<"apply">>
    \o (IF req.manifest # "" THEN <<"-f", temp_filename>> ELSE <<"-f", req.filename>>)
    \o ApplyFlags(req)

\* kubectl_delete: the arguments that close each of its three branches.
DeleteFlags(req) ==
    Opt(req.force, <<"--force">>)
    \o Opt(req.grace_period_seconds >= 0,
           <<"--grace-period", ToString(req.grace_period_seconds)>>)

\* kubectl_delete: the namespace arguments of the resource-type branch.
DeleteNamespaceArgs(req) ==
    IF req.all_namespaces THEN <<"--all-namespaces">>
    ELSE IF req.namespace # "" THEN <<"-n", req.namespace>>
    ELSE IF Lower(req.resource_type) \notin ClusterScopedDelete
    THEN <<"-n", k8s_config.namespace>>
    ELSE <<>>

kubectl_delete_args(req, temp_filename) ==
    <<"delete">>
    \o (IF req.manifest # ""
        THEN <<"-f", temp_filename>> \o Opt(req.namespace # "", <<"-n", req.namespace>>)
             \o DeleteFlags(req)
        ELSE IF req.filename # ""
        THEN <<"-f", req.filename>> \o Opt(req.namespace # "", <<"-n", req.namespace>>)
             \o DeleteFlags(req)
        ELSE <<Lower(req.resource_type)>>
             \o Opt(req.name # "", <<req.name>>)
             \o DeleteNamespaceArgs(req)
             \o Opt(req.label_selector # "", <<"-l", req.label_selector>>)
             \o DeleteFlags(req))

\* namespace or the default one: the `if namespace: ... else: ...` of most handlers.
NamespaceArgs(req) ==
    IF req.namespace # "" THEN <<"-n", req.namespace>> ELSE <<"-n", k8s_config.namespace>>

kubectl_logs_args(req) ==
    <<"logs">>
    \o (IF Lower(req.resource_type) \in {"pod", "pods"} THEN <<req.name>>
        ELSE <<Lower(req.resource_type) \o "/" \o req.name>>)
    \o NamespaceArgs(req)
    \o Opt(req.container # "", <<"-c", req.container>>)
    \o Opt(req.tail > 0, <<"--tail", ToString(req.tail)>>)
    \o Opt(req.since # "", <<"--since", req.since>>)
    \o Opt(req.since_time # "", <<"--since-time", req.since_time>>)
    \o Opt(req.timestamps, <<"--timestamps">>)
    \o Opt(req.previous, <<"--previous">>)
    \o Opt(req.follow, <<"--follow">>)
    \o Opt(req.label_selector # "", <<"-l", req.label_selector>>)

\* A validation that lets operation "set" through without a name.
ContextRequestValidWithoutName(req) == req.operation \in {"list", "get", "set"}

\* kubectl_context: the request passes the local validation.
ContextRequestValid(req) ==
    \/ req.operation = "list"
    \/ req.operation = "get"
    \/ req.operation = "set" /\ req.name # ""

kubectl_context_args(req) ==
    CASE req.operation = "list" ->
            <<"config", "get-contexts">> \o Opt(req.show_current, <<"--output=name">>)
      [] req.operation = "get" -> <<"config", "current-context">>
      [] req.operation = "set" -> <<"config", "use-context", req.name>>

kubectl_scale_args(req) ==
    <<"scale", Lower(req.resource_type) \o "/" \o req.name,
      "--replicas=" \o ToString(req.replicas)>>
    \o NamespaceArgs(req)

\* json.dumps(patch_data), for the patches of the model.
json_dumps(patch_data) ==
    CASE patch_data = "replicas: 2" -> "{\"spec\": {\"replicas\": 2}}"
      [] OTHER -> "{}"

kubectl_patch_args(req) ==
    <<"patch", Lower(req.resource_type), req.name>>
    \o NamespaceArgs(req)
    \o (IF req.patch_type = "merge" THEN <<"--type", "merge">>
        ELSE IF req.patch_type = "json" THEN <<"--type", "json">>
        ELSE <<>>)
    \o <<"-p", json_dumps(req.patch_data)>>
    \o Opt(req.dry_run, <<"--dry-run=client">>)

\* A rollout that passes every revision that is not negative.
kubectl_rollout_args_from_zero(req) ==
    <<"rollout", req.sub_command, Lower(req.resource_type) \o "/" \o req.name>>
    \o NamespaceArgs(req)
    \o Opt(req.sub_command = "undo" /\ req.revision >= 0,
           <<"--to-revision", ToString(req.revision)>>)
    \o Opt(req.timeout # "", <<"--timeout", req.timeout>>)

kubectl_rollout_args(req) ==
    <<"rollout", req.sub_command, Lower(req.resource_type) \o "/" \o req.name>>
    \o NamespaceArgs(req)
    \o Opt(req.sub_command = "undo" /\ req.revision > 0,
           <<"--to-revision", ToString(req.revision)>>)
    \o Opt(req.timeout # "", <<"--timeout", req.timeout>>)

\* str.split() on the command strings of the model.
Split(text) ==
    CASE text = "ls -l /tmp" -> <<"ls", "-l", "/tmp">>
      [] text = "  date  "   -> <<"date">>
      [] OTHER               -> <<>>

\* command.split() for a str, the sequence itself for a list.
CommandWords(command) == IF command.is_str THEN Split(command.text) ELSE command.items

kubectl_exec_args(req) ==
    <<"exec">>
    \o Opt(req.stdin, <<"-i">>)
    \o Opt(req.tty, <<"-t">>)
    \o <<req.name>>
    \o NamespaceArgs(req)
    \o Opt(req.container # "", <<"-c", req.container>>)
    \o <<"--">>
    \o CommandWords(req.command)

\* chart.split("/")[0] if "/" in chart else "temp-repo"
RepoName(chart) ==
    CASE chart = "bitnami/nginx" -> "bitnami"
      [] OTHER -> "temp-repo"

\* namespace or k8s_config.namespace
TargetNamespace(req) == IF req.namespace # "" THEN req.namespace ELSE k8s_config.namespace

\* helm_install / helm_upgrade: the arguments, values_file being the name of
\* the file the values were dumped to (None without values).
helm_install_args(req, values_file) ==
    <<"install", req.name, req.chart, "--namespace", TargetNamespace(req)>>
    \o Opt(req.create_namespace, <<"--create-namespace">>)
    \o Opt(values_file # None, <<"-f", values_file>>)

helm_upgrade_args(req, values_file) ==
    <<"upgrade", req.name, req.chart, "--namespace", TargetNamespace(req)>>
    \o Opt(values_file # None, <<"-f", values_file>>)

helm_uninstall_args(req) == <<"uninstall", req.name, "--namespace", TargetNamespace(req)>>

helm_list_args(req) ==
    <<"list", "--output", "json">>
    \o (IF req.all_namespaces THEN <<"--all-namespaces">>
        ELSE IF req.namespace # "" THEN <<"--namespace", req.namespace>>
        ELSE <<"--namespace", k8s_config.namespace>>)

-----------------------------------------------------------------------------
(* The tool handlers: their steps.                                         *)

\* The call of handler h with arguments req whose process cmd has been started.
Running(h, req, stage, cmd, tmp, n, repo_failed) ==
    [h |-> h, pc |-> "exec", req |-> req, stage |-> stage, cmd |-> cmd, tmp |-> tmp,
     nexec |-> n, repo_failed |-> repo_failed, outcome |-> "none", out |-> NoBody,
     resp |-> NoResp]

\* The payload of `except Exception as e`: status "error" and str(e); that of
\* health_check has status "unhealthy".
ErrorStatus(h) == IF h = "health_check" THEN "unhealthy" ELSE "error"

ErrorResponse(h, cause) == [status |-> ErrorStatus(h), cause |-> cause, body |-> NoBody]

\* The payload a handler returns after its command succeeded: the stdout as it
\* is ("raw"), or an envelope with a status around it.
SuccessResponse(h, req, stdout) ==
    CASE h = "kubectl_get" ->
            [status |-> "raw", cause |-> "", body |-> kubectl_get_result(req, stdout)]
      [] h \in {"kubectl_describe", "kubectl_logs", "helm_list"} ->
            [status |-> "raw", cause |-> "", body |-> stdout]
      [] h = "kubectl_context" ->
            [status |-> IF req.operation = "set" THEN "success" ELSE "raw",
             cause |-> "", body |-> stdout]
      [] h = "health_check" -> [status |-> "healthy", cause |-> "", body |-> stdout]
      [] OTHER -> [status |-> "success", cause |-> "", body |-> stdout]

\* The call has returned payload resp without starting a(nother) process.
Returned(h, req, tmp, n, repo_failed, resp) ==
    [h |-> h, pc |-> "done", req |-> req, stage |-> "main", cmd |-> <<>>, tmp |-> tmp,
     nexec |-> n, repo_failed |-> repo_failed, outcome |-> "none", out |-> NoBody,
     resp |-> resp]

\* The server takes a call of tool h into slot i.
Serving(i, h) == pc = "running" /\ h \in registered /\ calls[i].pc = "idle"

\* A handler that starts one kubectl process and has nothing else to do first.
StartKubectl(i, h, req, args) ==
    /\ Serving(i, h)
    /\ calls' = [calls EXCEPT ![i] = Running(h, req, "main", kubectl_cmd(args), None, 1, FALSE)]
    /\ UNCHANGED <<env, installed, pc, k8s_config, has_helm, registered, fs, m>>

NoArgs == <<>>

Ping(i) == StartKubectl(i, "ping", NoArgs, <<"cluster-info">>)

KubectlGet(i, req) == StartKubectl(i, "kubectl_get", req, kubectl_get_args(req))

KubectlDescribe(i, req) ==
    StartKubectl(i, "kubectl_describe", req, kubectl_describe_args(req))

KubectlLogs(i, req) == StartKubectl(i, "kubectl_logs", req, kubectl_logs_args(req))

KubectlScale(i, req) == StartKubectl(i, "kubectl_scale", req, kubectl_scale_args(req))

KubectlPatch(i, req) == StartKubectl(i, "kubectl_patch", req, kubectl_patch_args(req))

KubectlRollout(i, req) ==
    StartKubectl(i, "kubectl_rollout", req, kubectl_rollout_args(req))

KubectlExec(i, req) == StartKubectl(i, "kubectl_exec", req, kubectl_exec_args(req))

HealthCheck(i) == StartKubectl(i, "health_check", NoArgs, <<"version", "--client">>)

\* kubectl_context: an unknown operation, or set without a name, is answered
\* without a process.
KubectlContext(i, req) ==
    IF ContextRequestValid(req)
    THEN StartKubectl(i, "kubectl_context", req, kubectl_context_args(req))
    ELSE /\ Serving(i, "kubectl_context")
         /\ calls' = [calls EXCEPT ![i] =
                Returned("kubectl_context", req, None, 0, FALSE,
                         ErrorResponse("kubectl_context", "invalid request"))]
         /\ UNCHANGED <<env, installed, pc, k8s_config, has_helm, registered, fs, m>>

\* A text temp_file.write cannot encode (a lone surrogate).
Unencodable == "\\ud800"

\* What a handler puts into its temporary file: the manifest text as it is
\* (kubectl_apply, kubectl_delete), the yaml.dump of the values (helm_install,
\* helm_upgrade).
FileContent(h, text) ==
    IF h \in {"helm_install", "helm_upgrade"} THEN YamlDumpOfJson(text) ELSE Verbatim(text)

\* A file written for one call: NamedTemporaryFile(mode='w', suffix='.yaml',
\* delete=False) gives a new file name; the write of text succeeds (wrote) or
\* raises, and the file is there in both cases. On success the handler goes on
\* to start its process cmd(name) inside try/finally; on failure the exception
\* reaches the handler's `except Exception` before any try/finally is entered.
WithTempFile(i, h, req, text, n, repo_failed) ==
    \E name \in FreeNames, wrote \in BOOLEAN :
        /\ text = Unencodable => ~wrote
        /\ fs' = WriteFile(fs, name, IF wrote THEN FileContent(h, text) ELSE Verbatim(""))
        /\ calls' = [calls EXCEPT ![i] =
              IF wrote
              THEN Running(h, req, "main",
                           CASE h = "kubectl_apply" -> kubectl_cmd(kubectl_apply_args(req, name))
                             [] h = "kubectl_delete" -> kubectl_cmd(kubectl_delete_args(req, name))
                             [] h = "helm_install" -> helm_cmd(helm_install_args(req, name))
                             [] h = "helm_upgrade" -> helm_cmd(helm_upgrade_args(req, name)),
                           name, n + 1, repo_failed)
              ELSE Returned(h, req, name, n, repo_failed, ErrorResponse(h, "write failed"))]

\* kubectl_apply: manifest text first, then a file name, else an error.
KubectlApply(i, req) ==
    /\ Serving(i, "kubectl_apply")
    /\ IF req.manifest # ""
       THEN WithTempFile(i, "kubectl_apply", req, req.manifest, 0, FALSE)
       ELSE /\ calls' = [calls EXCEPT ![i] =
                  IF req.filename # ""
                  THEN Running("kubectl_apply", req, "main",
                               kubectl_cmd(kubectl_apply_args(req, None)), None, 1, FALSE)
                  ELSE Returned("kubectl_apply", req, None, 0, FALSE,
                                ErrorResponse("kubectl_apply", "invalid request"))]
            /\ fs' = fs
    /\ UNCHANGED <<env, installed, pc, k8s_config, has_helm, registered, m>>

\* kubectl_delete: manifest text first, then a file name, then a resource
\* type, else an error.
KubectlDelete(i, req) ==
    /\ Serving(i, "kubectl_delete")
    /\ IF req.manifest # ""
       THEN WithTempFile(i, "kubectl_delete", req, req.manifest, 0, FALSE)
       ELSE /\ calls' = [calls EXCEPT ![i] =
                  IF req.filename # "" \/ req.resource_type # ""
                  THEN Running("kubectl_delete", req, "main",
                               kubectl_cmd(kubectl_delete_args(req, None)), None, 1, FALSE)
                  ELSE Returned("kubectl_delete", req, None, 0, FALSE,
                                ErrorResponse("kubectl_delete", "invalid request"))]
            /\ fs' = fs
    /\ UNCHANGED <<env, installed, pc, k8s_config, has_helm, registered, m>>

\* No values: the default values=None of helm_install and helm_upgrade.
NoValues == None

\* `if values:` of a dict.
HasValues(req) == req.values # NoValues /\ req.values # "{}"

\* helm_install / helm_upgrade from `args = [...]` on: the values, if any, are
\* dumped to a temporary file, then the install or upgrade process is started.
HelmMain(i, h, req, n, repo_failed) ==
    IF HasValues(req)
    THEN WithTempFile(i, h, req, req.values, n, repo_failed)
    ELSE /\ calls' = [calls EXCEPT ![i] =
               Running(h, req, "main",
                       IF h = "helm_install" THEN helm_cmd(helm_install_args(req, None))
                       ELSE helm_cmd(helm_upgrade_args(req, None)),
                       None, n + 1, repo_failed)]
         /\ fs' = fs

\* A helm_install / helm_upgrade that adds a repository whether one is given
\* or not.
HelmStartAlwaysRepo(i, h, req) ==
    /\ Serving(i, h)
    /\ calls' = [calls EXCEPT ![i] =
           Running(h, req, "repo_add",
                   helm_cmd(<<"repo", "add", RepoName(req.chart), req.repo>>),
                   None, 1, FALSE)]
    /\ UNCHANGED <<env, installed, pc, k8s_config, has_helm, registered, fs, m>>

\* helm_install / helm_upgrade: with a repo, `helm repo add` runs first.
HelmStart(i, h, req) ==
    /\ Serving(i, h)
    /\ IF req.repo # ""
       THEN /\ calls' = [calls EXCEPT ![i] =
                  Running(h, req, "repo_add",
                          helm_cmd(<<"repo", "add", RepoName(req.chart), req.repo>>),
                          None, 1, FALSE)]
            /\ fs' = fs
       ELSE HelmMain(i, h, req, 0, FALSE)
    /\ UNCHANGED <<env, installed, pc, k8s_config, has_helm, registered, m>>

HelmInstall(i, req) == HelmStart(i, "helm_install", req)

HelmUpgrade(i, req) == HelmStart(i, "helm_upgrade", req)

\* A handler that starts one helm process and has nothing else to do first.
StartHelm(i, h, req, args) ==
    /\ Serving(i, h)
    /\ calls' = [calls EXCEPT ![i] = Running(h, req, "main", helm_cmd(args), None, 1, FALSE)]
    /\ UNCHANGED <<env, installed, pc, k8s_config, has_helm, registered, fs, m>>

HelmUninstall(i, req) == StartHelm(i, "helm_uninstall", req, helm_uninstall_args(req))

HelmList(i, req) == StartHelm(i, "helm_list", req, helm_list_args(req))

\* A `helm repo add` whose failure ends the call.
RepoAddFatal(i) ==
    /\ calls[i].pc = "exec"
    /\ calls[i].stage = "repo_add"
    /\ \E outcome \in Outcomes :
          calls' = [calls EXCEPT ![i] =
              IF outcome = "ok"
              THEN Running(calls[i].h, calls[i].req, "repo_update",
                           helm_cmd(<<"repo", "update">>), None, calls[i].nexec + 1, FALSE)
              ELSE Returned(calls[i].h, calls[i].req, None, calls[i].nexec, TRUE,
                            ErrorResponse(calls[i].h, RaisedByRun("helm", outcome)))]
    /\ UNCHANGED <<env, installed, pc, k8s_config, has_helm, registered, fs, m>>

\* `helm repo add` has ended: `helm repo update` follows if it succeeded; an
\* exception is logged and the handler goes on to the install or upgrade.
RepoAddReturns(i) ==
    /\ calls[i].pc = "exec"
    /\ calls[i].stage = "repo_add"
    /\ \E outcome \in Outcomes :
          IF outcome = "ok"
          THEN /\ calls' = [calls EXCEPT ![i] =
                     Running(calls[i].h, calls[i].req, "repo_update",
                             helm_cmd(<<"repo", "update">>), None, calls[i].nexec + 1, FALSE)]
               /\ fs' = fs
          ELSE HelmMain(i, calls[i].h, calls[i].req, calls[i].nexec, TRUE)
    /\ UNCHANGED <<env, installed, pc, k8s_config, has_helm, registered, m>>

\* `helm repo update` has ended, either way.
RepoUpdateReturns(i) ==
    /\ calls[i].pc = "exec"
    /\ calls[i].stage = "repo_update"
    /\ \E outcome \in Outcomes :
          HelmMain(i, calls[i].h, calls[i].req, calls[i].nexec, outcome # "ok")
    /\ UNCHANGED <<env, installed, pc, k8s_config, has_helm, registered, m>>

\* The process of the handler's own command has ended: the handler builds its
\* payload from the result or from the exception, unlinks its temporary file
\* in `finally` (an unlink that fails raises in its turn), and returns.
ExecReturns(i) ==
    /\ calls[i].pc = "exec"
    /\ calls[i].stage = "main"
    /\ \E outcome \in Outcomes :
       \E out \in (IF outcome = "ok" THEN Stdouts(calls[i].cmd) ELSE {NoBody}) :
          LET c == calls[i]
              unlink_fails == c.tmp # None /\ c.tmp \notin DOMAIN fs
              resp == IF unlink_fails THEN ErrorResponse(c.h, "oserror")
                      ELSE IF outcome = "ok" THEN SuccessResponse(c.h, c.req, out)
                      ELSE ErrorResponse(c.h, RaisedByRun(c.cmd[1], outcome))
          IN  /\ fs' = IF c.tmp # None THEN Unlink(fs, c.tmp) ELSE fs
              /\ calls' = [calls EXCEPT ![i] =
                    [c EXCEPT !.pc = "done", !.outcome = outcome, !.out = out, !.resp = resp]]
    /\ UNCHANGED <<env, installed, pc, k8s_config, has_helm, registered, m>>

\* A return that records the context a successful kubectl_context "set"
\* switched to.
ReturnRecordingContext(i) ==
    /\ calls[i].pc = "done"
    /\ calls' = [calls EXCEPT ![i] = Idle]
    /\ k8s_config' =
          IF calls[i].h = "kubectl_context" /\ calls[i].resp.status = "success"
          THEN [k8s_config EXCEPT !.context = calls[i].req.name]
          ELSE k8s_config
    /\ UNCHANGED <<env, installed, pc, has_helm, registered, fs, m>>

\* The payload has gone back to the client: the slot is free again.
Return(i) ==
    /\ calls[i].pc = "done"
    /\ calls' = [calls EXCEPT ![i] = Idle]
    /\ UNCHANGED <<env, installed, pc, k8s_config, has_helm, registered, fs, m>>

-----------------------------------------------------------------------------
(* The server at work: one call at a time, from a small set of requests    *)
(* for each tool.                                                          *)

GetRequests ==
    [resource_type : {"pods", "Secrets"}, name : {""}, namespace : {""},
     output : {"json", "yaml"}, all_namespaces : {FALSE}, label_selector : {""},
     field_selector : {""}, sort_by : {""}]

DescribeRequests == [resource_type : {"pods", "sc"}, name : {"web"}, namespace : {"", "prod"}]

ApplyRequests ==
    [manifest : {"", "kind: Pod", Unencodable}, filename : {"", "app.yaml"},
     namespace : {""}, dry_run : {FALSE}, force : {FALSE}]

DeleteRequests ==
    [resource_type : {"", "pods"}, name : {""}, namespace : {""}, label_selector : {""},
     manifest : {"", "kind: Pod"}, filename : {"", "app.yaml"}, all_namespaces : {FALSE},
     force : {FALSE}, grace_period_seconds : {-1, 0}]

LogsRequests ==
    [resource_type : {"pod", "deployment"}, name : {"web"}, namespace : {""},
     container : {""}, tail : {-1, 10}, since : {""}, since_time : {""},
     timestamps : {FALSE}, previous : {FALSE}, follow : {FALSE}, label_selector : {""}]

ContextRequests ==
    [operation : {"list", "get", "set", "use"}, name : {"", "ctx-2"}, show_current : {TRUE}]

ScaleRequests ==
    [name : {"web"}, replicas : {0, 3}, resource_type : {"deployment"}, namespace : {""}]

PatchRequests ==
    [resource_type : {"deployment"}, name : {"web"}, patch_data : {"replicas: 2"},
     namespace : {""}, patch_type : {"strategic", "merge"}, dry_run : {FALSE}]

RolloutRequests ==
    [sub_command : {"status", "undo", "restart"}, resource_type : {"deployment"},
     name : {"web"}, namespace : {""}, revision : {-1, 0, 3}, timeout : {""}]

ExecRequests ==
    [name : {"web"}, namespace : {""}, container : {""}, stdin : {FALSE}, tty : {FALSE},
     command : {[is_str |-> TRUE, text |-> "ls -l /tmp", items |-> <<>>],
                [is_str |-> FALSE, text |-> "", items |-> <<"sh", "-c", "echo a b">>]}]

HelmInstallRequests ==
    [name : {"web"}, chart : {"bitnami/nginx"}, repo : {"", "https://charts.example"},
     namespace : {""}, values : {NoValues, "{}", "replicaCount: 2"},
     create_namespace : {TRUE}]

HelmUpgradeRequests ==
    [name : {"web"}, chart : {"nginx"}, repo : {"", "https://charts.example"},
     namespace : {""}, values : {NoValues, "replicaCount: 2"}]

HelmUninstallRequests == [name : {"web"}, namespace : {"", "prod"}]

HelmListRequests == [namespace : {"", "prod"}, all_namespaces : BOOLEAN]

\* The environments the server of this specification was started in: a
\* kubeconfig path, and a context, a default namespace and a masking switch
\* that are set or not.
ServingEnvironments ==
    [KUBECONFIG_YAML : {None}, KUBECONFIG_JSON : {None}, K8S_SERVER : {None},
     K8S_TOKEN : {None}, KUBECONFIG_PATH : {"/etc/kubeconfig"}, KUBECONFIG : {None},
     K8S_SKIP_TLS_VERIFY : {None}, K8S_CONTEXT : {None, "ctx-1"},
     K8S_NAMESPACE : {None, "team"}, MASK_SECRETS : {None, "False", "true"}]

\* No run of mask_secrets_data.
NoMask == [input |-> Sc(""), once |-> Sc(""), twice |-> Sc(""), n |-> 0]

\* The state in which main() serves: imported, dependencies found, every tool
\* registered, no call in progress.
Serves(environments) ==
    /\ env \in environments
    /\ installed = {"kubectl", "helm"}
    /\ pc = "running"
    /\ k8s_config = WithContextAndNamespace(getenv("KUBECONFIG_PATH"))
    /\ has_helm = TRUE
    /\ registered = setup_all_tools(TRUE)
    /\ fs = <<>>
    /\ calls = IdleCalls
    /\ m = NoMask

Init == Serves(ServingEnvironments)

\* One call of any tool, its steps, and its return, in slot i.
Call(i) ==
    \/ Ping(i)
    \/ \E req \in GetRequests : KubectlGet(i, req)
    \/ \E req \in DescribeRequests : KubectlDescribe(i, req)
    \/ \E req \in ApplyRequests : KubectlApply(i, req)
    \/ \E req \in DeleteRequests : KubectlDelete(i, req)
    \/ \E req \in LogsRequests : KubectlLogs(i, req)
    \/ \E req \in ContextRequests : KubectlContext(i, req)
    \/ \E req \in ScaleRequests : KubectlScale(i, req)
    \/ \E req \in PatchRequests : KubectlPatch(i, req)
    \/ \E req \in RolloutRequests : KubectlRollout(i, req)
    \/ \E req \in ExecRequests : KubectlExec(i, req)
    \/ HealthCheck(i)
    \/ \E req \in HelmInstallRequests : HelmInstall(i, req)
    \/ \E req \in HelmUpgradeRequests : HelmUpgrade(i, req)
    \/ \E req \in HelmUninstallRequests : HelmUninstall(i, req)
    \/ \E req \in HelmListRequests : HelmList(i, req)
    \/ RepoAddReturns(i)
    \/ RepoUpdateReturns(i)
    \/ ExecReturns(i)
    \/ Return(i)

Next == Call(1)

Spec == Init /\ [][Next]_vars

\* The calls that have returned.
DoneCalls == {i \in Slots : calls[i].pc = "done"}

\* str(e) of the executors' timeout exceptions.
TimeoutMessages == {"kubectl command timed out", "helm command timed out"}

C4_TempFileRemoved ==
    \A i \in DoneCalls : calls[i].tmp # None => calls[i].tmp \notin DOMAIN fs

\* The requests C7 names: a delete of nothing, an apply of nothing, a context
\* operation that is unknown or is "set" without a name.
FailsValidation(c) ==
    \/ /\ c.h = "kubectl_delete"
       /\ c.req.resource_type = "" /\ c.req.manifest = "" /\ c.req.filename = ""
    \/ /\ c.h = "kubectl_apply"
       /\ c.req.manifest = "" /\ c.req.filename = ""
    \/ /\ c.h = "kubectl_context"
       /\ \/ c.req.operation \notin {"list", "get", "set"}
          \/ c.req.operation = "set" /\ c.req.name = ""

\* C7: a request that fails local validation is answered with status "error",
\* and its call never starts a process nor creates a file.
C7_ValidationBeforeExecutor ==
    \A i \in Slots :
        FailsValidation(calls[i]) =>
            /\ calls[i].pc = "done"
            /\ calls[i].nexec = 0
            /\ calls[i].tmp = None
            /\ calls[i].resp.status = "error"

C7_Witness ==
    \E i \in DoneCalls :
        /\ calls[i].h = "kubectl_context"
        /\ calls[i].req.operation = "set"
        /\ calls[i].req.name = ""
        /\ calls[i].nexec = 0
        /\ calls[i].resp.status = "error"

\* Number of times tok occurs among the words of cmd.
Occurrences(cmd, tok) == Cardinality({k \in DOMAIN cmd : cmd[k] = tok})

\* The word of cmd after the first tok.
ValueOf(cmd, tok) == cmd[IndexOf(cmd, tok) + 1]

\* The calls of handler h whose command line has been built.
Built(h) == {i \in Slots : calls[i].h = h /\ calls[i].cmd # <<>>}

\* C11: the command line of a kubectl_rollout has --to-revision <n> exactly
\* when sub_command is "undo" and revision > 0, and n is then the revision.
C11_ToRevisionOnlyForUndo ==
    \A i \in Built("kubectl_rollout") :
        LET req == calls[i].req
            cmd == calls[i].cmd
        IN  IF req.sub_command = "undo" /\ req.revision > 0
            THEN /\ Occurrences(cmd, "--to-revision") = 1
                 /\ ValueOf(cmd, "--to-revision") = ToString(req.revision)
            ELSE Occurrences(cmd, "--to-revision") = 0

C11_Witness ==
    \E i \in Built("kubectl_rollout") :
        /\ calls[i].req.sub_command = "undo"
        /\ calls[i].req.revision = 0
        /\ Occurrences(calls[i].cmd, "--to-revision") = 0

\* C12: the command line of a kubectl_apply or kubectl_delete has one -f, with
\* the handler's own temporary file, when manifest text is given, whatever
\* filename and resource_type are; else one -f with the caller's filename when
\* that is given, whatever resource_type is; else (delete) no -f.
C12_ManifestThenFilename ==
    \A i \in Built("kubectl_apply") \cup Built("kubectl_delete") :
        LET req == calls[i].req
            cmd == calls[i].cmd
        IN  IF req.manifest # ""
            THEN /\ Occurrences(cmd, "-f") = 1
                 /\ calls[i].tmp \in TmpNames
                 /\ ValueOf(cmd, "-f") = calls[i].tmp
                 /\ req.filename # "" => Occurrences(cmd, req.filename) = 0
            ELSE IF req.filename # ""
            THEN /\ Occurrences(cmd, "-f") = 1
                 /\ ValueOf(cmd, "-f") = req.filename
                 /\ calls[i].tmp = None
                 /\ (calls[i].h = "kubectl_delete" /\ req.resource_type # "") =>
                        Occurrences(cmd, Lower(req.resource_type)) = 0
            ELSE Occurrences(cmd, "-f") = 0

C12_Witness ==
    \E i \in Built("kubectl_apply") :
        /\ calls[i].req.manifest # ""
        /\ calls[i].req.filename # ""
        /\ ValueOf(calls[i].cmd, "-f") = calls[i].tmp

\* C14: in every command line, --kubeconfig <path> (when a path is resolved)
\* and, for kubectl, --context <ctx> (when a context is set) come right after
\* the program name, before the handler's arguments; a helm command line has
\* no --context.
C14_GlobalFlagsFirst ==
    \A i \in Slots :
        calls[i].cmd # <<>> =>
            LET cmd == calls[i].cmd
                path == k8s_config.kubeconfig_path
                context == k8s_config.context
                after_path == IF Truthy(path) THEN 4 ELSE 2
            IN  /\ Truthy(path) => (cmd[2] = "--kubeconfig" /\ cmd[3] = path)
                /\ (cmd[1] = "kubectl" /\ Truthy(context)) =>
                       (cmd[after_path] = "--context" /\ cmd[after_path + 1] = context)
                /\ cmd[1] = "helm" => Occurrences(cmd, "--context") = 0

\* The processes a call may start: its own command, and before it `helm repo
\* add` and `helm repo update` for helm_install / helm_upgrade with a repo.
InvocationLimit(c) ==
    IF c.h \in {"helm_install", "helm_upgrade"} /\ c.req.repo # "" THEN 3 ELSE 1

C15_Invocations ==
    \A i \in Slots :
        calls[i].pc # "idle" =>
            /\ calls[i].nexec <= InvocationLimit(calls[i])
            /\ (calls[i].pc = "done" /\ calls[i].outcome \in {"nonzero", "timeout"}) =>
                   calls[i].resp.status \in {"error", "unhealthy"}

C15_NoRetryStep ==
    \A i \in Slots :
        /\ (calls[i].pc = "exec" /\ calls[i].stage = "main") =>
               \/ calls'[i] = calls[i]
               \/ calls'[i].pc = "done" /\ calls'[i].nexec = calls[i].nexec
        /\ calls[i].pc = "done" => (calls'[i] = calls[i] \/ calls'[i].pc = "idle")

\* C15, as the code has it: a call starts its own command at most once, and
\* when that command has ended, in whatever way, the call returns without
\* starting another process, with an error payload if the command exited
\* non-zero or timed out; only helm_install and helm_upgrade with a repo start
\* more than one process (at most three: repo add, repo update, their own).
C15_OwnCommandOnce == []C15_Invocations /\ [][C15_NoRetryStep]_vars

C15_Witness ==
    \E i \in DoneCalls :
        /\ calls[i].h = "helm_install"
        /\ calls[i].nexec = 3
        /\ calls[i].outcome = "nonzero"
        /\ calls[i].resp.status = "error"

\* C15 as stated: no call starts more than one process.
C15_OneProcessPerCall == \A i \in Slots : calls[i].nexec <= 1

\* C16: a helm_install or helm_upgrade whose `repo add` or `repo update`
\* failed has gone on to its own command (unless writing the values file
\* failed), and what it returns is success exactly when that command
\* succeeded.
C16_RepoStepsBestEffort ==
    \A i \in Slots :
        (calls[i].h \in {"helm_install", "helm_upgrade"} /\ calls[i].repo_failed) =>
            /\ calls[i].stage = "main"
            /\ calls[i].pc = "exec" => calls[i].cmd[2] \in {"install", "upgrade"}
            /\ calls[i].pc = "done" =>
                   IF calls[i].outcome = "none"
                   THEN calls[i].tmp # None /\ calls[i].resp.cause = "write failed"
                   ELSE /\ calls[i].cmd[2] \in {"install", "upgrade"}
                        /\ (calls[i].resp.status = "success") = (calls[i].outcome = "ok")
                        /\ (calls[i].resp.status = "error") = (calls[i].outcome # "ok")

C16_Witness ==
    \E i \in DoneCalls :
        /\ calls[i].h = "helm_upgrade"
        /\ calls[i].repo_failed
        /\ calls[i].outcome = "ok"
        /\ calls[i].resp.status = "success"

\* C17: no step of any handler call changes the config path, the context or
\* the default namespace of k8s_config.
C17_ConfigNeverModified == [][k8s_config' = k8s_config]_vars

C17_Witness ==
    \E i \in DoneCalls :
        /\ calls[i].h = "kubectl_context"
        /\ calls[i].req.operation = "set"
        /\ calls[i].resp.status = "success"
        /\ k8s_config.context # calls[i].req.name
        /\ k8s_config = WithContextAndNamespace(getenv("KUBECONFIG_PATH"))

\* C19: in the command line of a kubectl_exec, the words after the first --
\* are the caller's command, split on whitespace if it is a string, and
\* nothing else.
C19_OnlyCommandAfterSeparator ==
    \A i \in Built("kubectl_exec") :
        LET cmd == calls[i].cmd
            sep == IndexOf(cmd, "--")
        IN  /\ sep > 0
            /\ SubSeq(cmd, sep + 1, Len(cmd)) = CommandWords(calls[i].req.command)
            /\ \A k \in (sep + 1)..Len(cmd) : cmd[k] \notin {"--kubeconfig", "--context"}

-----------------------------------------------------------------------------
(* kubectl_get, from every combination of its arguments.                   *)

AllGetRequests ==
    [resource_type : {"pods", "Secrets", "events", "ns", "Nodes", "nodes", "node",
                      "namespaces", "namespace", "persistentvolumes", "pv",
                      "storageclasses", "sc"},
     name : {"", "web"}, namespace : {"", "prod"},
     output : {"json", "yaml", "wide", "custom"},
     all_namespaces : BOOLEAN, label_selector : {"", "app=web"},
     field_selector : {""}, sort_by : {"", "metadata.name"}]

\* The environments of this specification: a default namespace and a masking
\* switch that are set or not.
GetEnvironments ==
    [KUBECONFIG_YAML : {None}, KUBECONFIG_JSON : {None}, K8S_SERVER : {None},
     K8S_TOKEN : {None}, KUBECONFIG_PATH : {"/etc/kubeconfig"}, KUBECONFIG : {None},
     K8S_SKIP_TLS_VERIFY : {None}, K8S_CONTEXT : {None},
     K8S_NAMESPACE : {None, "team"}, MASK_SECRETS : {None, "False", "true"}]

InitGet == Serves(GetEnvironments)

NextGet ==
    \/ \E req \in AllGetRequests : KubectlGet(1, req)
    \/ ExecReturns(1)
    \/ Return(1)

SpecGet == InitGet /\ [][NextGet]_vars

\* Every value under a `data` mapping of x, at any depth, is the marker.
RECURSIVE DataRedacted(_)
DataRedacted(x) ==
    CASE x.t = "dict" ->
            \A key \in DOMAIN x.v :
                /\ (key = "data" /\ x.v[key].t = "dict") =>
                       \A f \in DOMAIN x.v[key].v : x.v[key].v[f] = Redacted
                /\ DataRedacted(x.v[key])
      [] x.t = "list" -> \A j \in DOMAIN x.v : DataRedacted(x.v[j])
      [] OTHER -> TRUE

\* C3: a successful kubectl_get of a secret-like type, masking not disabled,
\* returns a payload in which every value under a `data` mapping is the marker,
\* whatever the output format; any other successful kubectl_get returns the
\* stdout as it is.
C3_SecretsMasked ==
    \A i \in DoneCalls :
        (calls[i].h = "kubectl_get" /\ calls[i].outcome = "ok") =>
            IF /\ Lower(calls[i].req.resource_type) \in {"secret", "secrets"}
               /\ Lower(getenv_default("MASK_SECRETS", "true")) # "false"
            THEN DataRedacted(calls[i].resp.body.val)
            ELSE calls[i].resp.body = calls[i].out

\* The resource types C6 calls cluster-scoped.
ClusterScopedNames == {"nodes", "node", "namespaces", "namespace",
                       "persistentvolumes", "pv", "storageclasses", "sc"}

\* C6: the command line of a kubectl_get has --all-namespaces and no -n when
\* all_namespaces is set; otherwise exactly one -n, with the explicit
\* namespace or else the default one, for a type that is not cluster-scoped;
\* and no -n for a cluster-scoped type without an explicit namespace.
C6_GetNamespaceRule ==
    \A i \in Slots :
        (calls[i].h = "kubectl_get" /\ calls[i].pc \in {"exec", "done"}) =>
            LET req == calls[i].req
                cmd == calls[i].cmd
                cluster_scoped == Lower(req.resource_type) \in ClusterScopedNames
            IN  IF req.all_namespaces
                THEN Occurrences(cmd, "--all-namespaces") = 1 /\ Occurrences(cmd, "-n") = 0
                ELSE /\ Occurrences(cmd, "--all-namespaces") = 0
                     /\ ~cluster_scoped =>
                           /\ Occurrences(cmd, "-n") = 1
                           /\ ValueOf(cmd, "-n") =
                                 IF req.namespace # "" THEN req.namespace
                                 ELSE getenv_default("K8S_NAMESPACE", "default")
                     /\ (cluster_scoped /\ req.namespace = "") => Occurrences(cmd, "-n") = 0

C6_Witness ==
    \E i \in Slots :
        /\ calls[i].pc = "exec"
        /\ calls[i].h = "kubectl_get"
        /\ calls[i].req.all_namespaces
        /\ calls[i].req.namespace = "prod"
        /\ Occurrences(calls[i].cmd, "--all-namespaces") = 1
        /\ Occurrences(calls[i].cmd, "-n") = 0

-----------------------------------------------------------------------------
(* kubectl_get, kubectl_describe and kubectl_delete by resource type.      *)

ScopedTypes == {"pods", "Nodes", "nodes", "namespaces", "persistentvolumes",
                "storageclasses", "pv", "sc"}

ScopeGetRequests ==
    [resource_type : ScopedTypes, name : {"web"}, namespace : {"", "prod"},
     output : {"wide"}, all_namespaces : BOOLEAN, label_selector : {""},
     field_selector : {""}, sort_by : {""}]

ScopeDescribeRequests ==
    [resource_type : ScopedTypes, name : {"web"}, namespace : {"", "prod"}]

ScopeDeleteRequests ==
    [resource_type : ScopedTypes, name : {"web"}, namespace : {"", "prod"},
     label_selector : {""}, manifest : {""}, filename : {""}, all_namespaces : BOOLEAN,
     force : {FALSE}, grace_period_seconds : {-1}]

InitScope == Serves(GetEnvironments)

NextScope ==
    \/ \E req \in ScopeGetRequests : KubectlGet(1, req)
    \/ \E req \in ScopeDescribeRequests : KubectlDescribe(1, req)
    \/ \E req \in ScopeDeleteRequests : KubectlDelete(1, req)
    \/ ExecReturns(1)
    \/ Return(1)

SpecScope == InitScope /\ [][NextScope]_vars

\* The resource types C13 calls cluster-scoped.
ClusterScopedKinds == {"nodes", "namespaces", "persistentvolumes", "storageclasses"}

\* C13: for a cluster-scoped resource type and no explicit namespace, the
\* command line of a kubectl_get, a kubectl_describe and a kubectl_delete by
\* resource type has no -n, and the three handlers agree on whether they add
\* the default namespace for the resource type of the call.
C13_SharedScopingRule ==
    \A i \in Built("kubectl_get") \cup Built("kubectl_describe") \cup Built("kubectl_delete") :
        LET type == calls[i].req.resource_type
            bare == [resource_type |-> type, namespace |-> "", all_namespaces |-> FALSE]
        IN  /\ (Lower(type) \in ClusterScopedKinds /\ calls[i].req.namespace = "") =>
                    Occurrences(calls[i].cmd, "-n") = 0
            /\ (GetNamespaceArgs(bare) = <<>>) = (DescribeNamespaceArgs(bare) = <<>>)
            /\ (GetNamespaceArgs(bare) = <<>>) = (DeleteNamespaceArgs(bare) = <<>>)

-----------------------------------------------------------------------------
(* Calls with temporary files, side by side.                               *)

ConcApplyRequests ==
    [manifest : {"kind: Pod"}, filename : {""}, namespace : {""}, dry_run : {FALSE},
     force : {FALSE}]

ConcDeleteRequests ==
    [resource_type : {""}, name : {""}, namespace : {""}, label_selector : {""},
     manifest : {"kind: Job"}, filename : {""}, all_namespaces : {FALSE},
     force : {FALSE}, grace_period_seconds : {-1}]

ConcInstallRequests ==
    [name : {"web"}, chart : {"nginx"}, repo : {""}, namespace : {""},
     values : {"replicaCount: 2"}, create_namespace : {TRUE}]

ConcUpgradeRequests ==
    [name : {"web"}, chart : {"nginx"}, repo : {""}, namespace : {""},
     values : {"replicaCount: 3"}]

\* The environment of this specification.
ConcEnvironments ==
    [KUBECONFIG_YAML : {None}, KUBECONFIG_JSON : {None}, K8S_SERVER : {None},
     K8S_TOKEN : {None}, KUBECONFIG_PATH : {"/etc/kubeconfig"}, KUBECONFIG : {None},
     K8S_SKIP_TLS_VERIFY : {None}, K8S_CONTEXT : {None}, K8S_NAMESPACE : {None},
     MASK_SECRETS : {None}]

InitConc == Serves(ConcEnvironments)

\* The server takes calls into every slot: the handlers' steps interleave.
NextConc ==
    \E i \in Slots :
        \/ \E req \in ConcApplyRequests : KubectlApply(i, req)
        \/ \E req \in ConcDeleteRequests : KubectlDelete(i, req)
        \/ \E req \in ConcInstallRequests : HelmInstall(i, req)
        \/ \E req \in ConcUpgradeRequests : HelmUpgrade(i, req)
        \/ ExecReturns(i)
        \/ Return(i)

SpecConc == InitConc /\ [][NextConc]_vars

\* The calls whose process is running on a temporary file.
RunningOnFile == {i \in Slots : calls[i].pc = "exec" /\ calls[i].tmp # None}

\* The text call c had to put into its file.
TextOf(c) == IF c.h \in {"helm_install", "helm_upgrade"} THEN c.req.values ELSE c.req.manifest

\* C18: while the process of a call runs on a temporary file, the file exists
\* and holds what that call wrote, the command line names it once, and no
\* other call whose process is running has the same file or names it.
C18_OwnTempFile ==
    \A i \in RunningOnFile :
        /\ calls[i].tmp \in DOMAIN fs
        /\ fs[calls[i].tmp] = FileContent(calls[i].h, TextOf(calls[i]))
        /\ Occurrences(calls[i].cmd, "-f") = 1
        /\ ValueOf(calls[i].cmd, "-f") = calls[i].tmp
        /\ \A j \in RunningOnFile \ {i} :
               /\ calls[j].tmp # calls[i].tmp
               /\ Occurrences(calls[j].cmd, calls[i].tmp) = 0

C18_Witness ==
    \E i, j \in RunningOnFile :
        /\ i # j
        /\ calls[i].h = "kubectl_apply"
        /\ calls[j].h = "helm_upgrade"
        /\ calls[i].tmp # calls[j].tmp
        /\ \E name \in DOMAIN fs \ {calls[i].tmp, calls[j].tmp} : fs[name] = Verbatim("")

-----------------------------------------------------------------------------
(* Start-up, from every environment.                                       *)

\* The environments: each variable unset, empty, or set.
Environments ==
    [KUBECONFIG_YAML     : {None, "", "kind: Config", MalformedYaml},
     KUBECONFIG_JSON     : {None, "", "{json A}", MalformedJson},
     K8S_SERVER          : {None, "", "https://10.0.0.1:6443"},
     K8S_TOKEN           : {None, "", "token-1"},
     K8S_SKIP_TLS_VERIFY : {None, "TRUE"},
     KUBECONFIG_PATH     : {None, "", "/etc/k8s/path.conf"},
     KUBECONFIG          : {None, "", "/etc/k8s/kubeconfig.conf"},
     K8S_CONTEXT         : {None, "ctx-1"},
     K8S_NAMESPACE       : {None, "team"},
     MASK_SECRETS        : {None}]

InitStartup ==
    /\ env \in Environments
    /\ installed \in SUBSET {"kubectl", "helm"}
    /\ pc = "import"
    /\ k8s_config = Unbound
    /\ has_helm = FALSE
    /\ registered = {}
    /\ fs = <<>>
    /\ calls = IdleCalls
    /\ m = NoMask

NextStartup ==
    \/ ImportInline
    \/ ImportPath
    \/ ImportRaises
    \/ CheckDependencies
    \/ MainExit
    \/ MainRun

SpecStartup == InitStartup /\ [][NextStartup]_vars

\* An environment variable counts as set when it is there and not empty.
IsSet(v) == env[v] # None /\ env[v] # ""

Imported == pc \in {"main", "checked", "running", "exited"}

\* C1: the resolved config path comes from the highest-priority source that is
\* set, in the order KUBECONFIG_YAML, KUBECONFIG_JSON, K8S_SERVER with K8S_TOKEN,
\* KUBECONFIG_PATH, KUBECONFIG, home default, and from nothing else.
C1_FirstMatchWins ==
    Imported =>
        LET path == k8s_config.kubeconfig_path
            inline(content) == DOMAIN fs = {path} /\ fs[path] = content
        IN  IF IsSet("KUBECONFIG_YAML")
            THEN inline(Verbatim(env["KUBECONFIG_YAML"]))
            ELSE IF IsSet("KUBECONFIG_JSON")
            THEN inline(YamlDumpOfJson(json_loads(env["KUBECONFIG_JSON"])))
            ELSE IF IsSet("K8S_SERVER") /\ IsSet("K8S_TOKEN")
            THEN inline(MinimalConfig(env["K8S_SERVER"], env["K8S_TOKEN"],
                                      env["K8S_SKIP_TLS_VERIFY"] = "TRUE"))
            ELSE IF IsSet("KUBECONFIG_PATH")
            THEN path = env["KUBECONFIG_PATH"] /\ fs = <<>>
            ELSE IF IsSet("KUBECONFIG")
            THEN path = env["KUBECONFIG"] /\ fs = <<>>
            ELSE path = HomeKubeconfig /\ fs = <<>>

\* C1 witness: with the YAML variable empty, the JSON variable unset and a
\* server without a token, KUBECONFIG_PATH has won over KUBECONFIG.
C1_Witness ==
    /\ Imported
    /\ env["KUBECONFIG_YAML"] = ""
    /\ env["KUBECONFIG_JSON"] = None
    /\ IsSet("K8S_SERVER")
    /\ env["K8S_TOKEN"] = ""
    /\ IsSet("KUBECONFIG_PATH")
    /\ IsSet("KUBECONFIG")
    /\ k8s_config.kubeconfig_path = env["KUBECONFIG_PATH"]

\* The inline branch the import took, as far as the environment tells.
TookYamlBranch == IsSet("KUBECONFIG_YAML")
TookJsonBranch == ~IsSet("KUBECONFIG_YAML") /\ IsSet("KUBECONFIG_JSON")

NothingStarted == pc = "crashed" /\ k8s_config = Unbound /\ registered = {}

Started == pc \in {"running", "exited"}

\* C5 as stated: without kubectl the start fails; without helm alone the server
\* runs with the kubectl tools registered and the helm tools not.
C5_HelmOptional ==
    Started =>
        /\ "kubectl" \notin installed => pc = "exited"
        /\ ("kubectl" \in installed /\ "helm" \notin installed) =>
              /\ pc = "running"
              /\ KubectlTools \subseteq registered
              /\ registered \cap HelmTools = {}

====
